---- MODULE Spec2Model ----
(***************************************************************************)
(* Model of src/API/predict.py: the deepfake-audio inference pipeline      *)
(* explain_prediction and the pure helpers it calls.                       *)
(*                                                                         *)
(* Numbers.  A float is modelled as an exact fraction <<num, den>>; the    *)
(* fraction <<0, 0>> is NaN (what numpy produces for 0/0).  Spectrogram    *)
(* cells before normalisation are whole decibels (integers).               *)
(* Strings (paths) are sequences of one-character strings.                 *)
(* None is the empty tuple, a Python bool b is the 1-tuple <<b>>.          *)
(***************************************************************************)
EXTENDS Integers, Sequences, FiniteSets, TLC

VARIABLES
    fs,                     \* the file system: path -> file content
    models,                 \* the module-level model handles (line 44)
    pc,                     \* position inside explain_prediction
    audio_file,             \* parameter / local of explain_prediction
    mel_spectrogram,        \* local, line 112
    mel_spectrogram_padded, \* local, lines 113-117 (reassigned in place)
    wave2vec_features,      \* local, lines 119, 123
    xvector_features,       \* local, lines 120, 125
    siamese_features,       \* local, lines 121, 124
    combined_features,      \* local, line 127
    prediction,             \* local, line 128
    result,                 \* the value returned to the caller
    exception,              \* <<the call that raised>>, or None
    speech_timestamps,      \* number of segments the VAD returned (line 62)
    calls                   \* history: collaborator calls of the current call

vars == <<fs, models, pc, audio_file, mel_spectrogram, mel_spectrogram_padded,
          wave2vec_features, xvector_features, siamese_features,
          combined_features, prediction, result, exception,
          speech_timestamps, calls>>

locals == <<mel_spectrogram, mel_spectrogram_padded, wave2vec_features,
            xvector_features, siamese_features, combined_features, prediction>>

(***************************************************************************)
(* Bounds of the model.                                                    *)
(***************************************************************************)
MaxSegments == 1      \* the VAD returns 0..MaxSegments speech segments
MaxHalfSeconds == 5   \* clip lengths: 1..MaxHalfSeconds half seconds
MaxKind == 1          \* spectrogram contents: kind 0 is a constant clip
MaxSeed == 0          \* outputs of the spectral pattern encoder: seeds 0..MaxSeed
MaxT == 2             \* encoder time steps
HiddenDim == 2        \* width of the acoustic encoder's hidden state
EmbedDim == 2         \* width of the speaker encoder's embedding
SiameseDim == 2       \* width of the spectral pattern embedding
PScale == 8           \* classifier scores are k / PScale, k in 0..PScale
MaxRows == 2          \* rows of the arrays given to the pure helpers
MaxFramesIn == 100    \* frames of the arrays given to the pure helpers

(***************************************************************************)
(* Program constants.                                                      *)
(***************************************************************************)
sr == 22050           \* line 69
duration == 2         \* line 69
hop_length == 512     \* line 70
n_mels == 128         \* line 71
top_db == 80          \* librosa.power_to_db default, used at line 73
max_pad_len == 87     \* line 75

None == <<>>
NaN == <<0, 0>>
IsNaN(x) == x[2] = 0

(***************************************************************************)
(* Python str methods used on paths.                                       *)
(***************************************************************************)
LowerChar(c) ==
    CASE c = "A" -> "a"
      [] c = "C" -> "c"
      [] c = "B" -> "b"
      [] c = "W" -> "w"
      [] c = "V" -> "v"
      [] OTHER -> c

lower(s) == [k \in 1..Len(s) |-> LowerChar(s[k])]

endswith(s, suffix) ==
    /\ Len(s) >= Len(suffix)
    /\ SubSeq(s, Len(s) - Len(suffix) + 1, Len(s)) = suffix

\* s.rsplit(".", 1)[0]: the text before the last ".", or all of s
rsplit_head(s) ==
    LET dots == {k \in 1..Len(s) : s[k] = "."}
    IN  IF dots = {} THEN s
        ELSE SubSeq(s, 1, (CHOOSE k \in dots : \A l \in dots : l <= k) - 1)

DotAac == <<".", "a", "a", "c">>
DotWav == <<".", "w", "a", "v">>

CaseSensitiveAac(path) == endswith(path, DotAac)

\* line 103: audio_file.lower().endswith('.aac')
IsAac(path) == endswith(lower(path), DotAac)

\* line 19
new_path_of(audio_path) == rsplit_head(audio_path) \o DotWav

(***************************************************************************)
(* Arrays.  A 2-D array is a sequence of rows, a row a sequence of cells.  *)
(***************************************************************************)
Cells(m) == UNION { {m[i][j] : j \in 1..Len(m[i])} : i \in 1..Len(m) }
Min(S) == CHOOSE x \in S : \A y \in S : x <= y
Max(S) == CHOOSE x \in S : \A y \in S : y <= x
zeros(n) == [k \in 1..n |-> 0]
RECURSIVE Sum(_)
Sum(s) == IF s = <<>> THEN 0 ELSE Head(s) + Sum(Tail(s))

\* mel_spectrogram.shape[1]
shape1(m) == Len(m[1])

(***************************************************************************)
(* Lines 68-73.  librosa is a collaborator: what is modelled is the shape  *)
(* of its output and the range power_to_db(ref=np.max) guarantees (the     *)
(* peak is 0 dB, nothing is below -top_db).  `samples` is the length of    *)
(* the file at 22050 Hz, `kind` chooses the contents.                      *)
(***************************************************************************)
loaded_samples(samples) == IF samples > sr * duration THEN sr * duration ELSE samples

n_frames(samples) == 1 + (loaded_samples(samples) \div hop_length)

db_cell(i, j, kind) ==
    IF kind = 0 THEN 0 ELSE 0 - (((i - 1) * kind + (j - 1)) % (top_db + 1))

db_array(rows, frames, kind) ==
    [i \in 1..rows |-> [j \in 1..frames |-> db_cell(i, j, kind)]]

mel_spectrogram_gen(samples, kind) == db_array(n_mels, n_frames(samples), kind)

(***************************************************************************)
(* Lines 75-81.                                                            *)
(***************************************************************************)
PadOnly(mel) ==
    LET pad_width == max_pad_len - shape1(mel)
    IN  [i \in 1..Len(mel) |-> mel[i] \o zeros(IF pad_width > 0 THEN pad_width ELSE 0)]

TrailingSlice(mel) ==
    LET pad_width == max_pad_len - shape1(mel)
    IN  IF pad_width > 0
        THEN [i \in 1..Len(mel) |-> mel[i] \o zeros(pad_width)]
        ELSE [i \in 1..Len(mel) |->
                SubSeq(mel[i], Len(mel[i]) - max_pad_len + 1, Len(mel[i]))]

pad_mel_spectrograms(mel) ==
    LET pad_width == max_pad_len - shape1(mel)
    IN  IF pad_width > 0
        THEN [i \in 1..Len(mel) |-> mel[i] \o zeros(pad_width)]
        ELSE [i \in 1..Len(mel) |-> SubSeq(mel[i], 1, max_pad_len)]

(***************************************************************************)
(* Lines 99-100.  Each cell becomes the fraction (x - min) / (max - min);  *)
(* with min = max every cell is 0/0, which numpy evaluates to NaN.         *)
(***************************************************************************)
NoMinShift(data) ==
    LET lo == Min(Cells(data))
        hi == Max(Cells(data))
    IN  [i \in 1..Len(data) |-> [j \in 1..Len(data[i]) |-> <<data[i][j], hi - lo>>]]

normalize_data(data) ==
    LET lo == Min(Cells(data))
        hi == Max(Cells(data))
    IN  [i \in 1..Len(data) |-> [j \in 1..Len(data[i]) |-> <<data[i][j] - lo, hi - lo>>]]

\* lines 116-117: np.expand_dims(x, axis=-1), then np.expand_dims(x, axis=0)
expand_dims_last(x) == [i \in 1..Len(x) |-> [j \in 1..Len(x[i]) |-> <<x[i][j]>>]]
expand_dims_first(x) == <<x>>

(***************************************************************************)
(* Lines 83-97.  The encoders are collaborators; `seed` stands for their   *)
(* input.  Modelled from the code: the axis each output is averaged over   *)
(* and the squeeze.                                                        *)
(***************************************************************************)
\* last_hidden_state of shape (1, T, HiddenDim)
last_hidden_state(T, seed) ==
    << [t \in 1..T |-> [h \in 1..HiddenDim |-> seed + t * h]] >>

\* line 89: .mean(dim=1).squeeze(): the mean over time, a vector of HiddenDim
mean_time_squeeze(hs) ==
    [h \in 1..Len(hs[1][1]) |-> <<Sum([t \in 1..Len(hs[1]) |-> hs[1][t][h]]), Len(hs[1])>>]

\* embeddings of shape (1, EmbedDim)
embeddings(seed) == << [e \in 1..EmbedDim |-> seed + e] >>

\* line 97: .mean(dim=1).squeeze(): the mean over the embedding axis, a scalar
mean_embed_squeeze(emb) == <<Sum(emb[1]), Len(emb[1])>>

\* line 121: siamese_model.predict returns shape (1, SiameseDim); a NaN input
\* can come back as NaN
siamese_output(seed, nan) ==
    << [d \in 1..SiameseDim |-> IF nan THEN NaN ELSE <<seed + 10 * d, 1>>] >>

\* lines 123-125: reshape((1, -1)) of a vector, of a scalar, of a (1, D) array
reshape_vector(v) == <<v>>
reshape_scalar(x) == << <<x>> >>
reshape_rows(a) == << a[1] >>

\* line 127: np.concatenate([...], axis=1) of three arrays with one row
SiameseFirst(wave2vec, siamese, xvector) == << siamese[1] \o wave2vec[1] \o xvector[1] >>

concatenate(wave2vec, siamese, xvector) == << wave2vec[1] \o siamese[1] \o xvector[1] >>

HasNaN(row) == \E k \in 1..Len(row) : IsNaN(row[k])

(***************************************************************************)
(* Lines 129-132: the decision on the raw score p = prediction[0][0].      *)
(***************************************************************************)
times100(p) == <<p[1] * 100, p[2]>>
hundred_minus(x) == IF IsNaN(x) THEN NaN ELSE <<100 * x[2] - x[1], x[2]>>
\* p >= 0.5 (false for NaN)
ge_half(p) == ~IsNaN(p) /\ 2 * p[1] >= p[2]
gt_half(p) == ~IsNaN(p) /\ 2 * p[1] > p[2]

label_of(p) == IF ge_half(p) THEN "Fake Audio" ELSE "Real Audio"

probability_of(p) ==
    IF label_of(p) = "Fake Audio" THEN times100(p) ELSE hundred_minus(times100(p))

deepfake_of(p) == label_of(p) = "Fake Audio"

StrictThreshold(p, mel) ==
    [status |-> <<TRUE>>,
     deepfake |-> <<gt_half(p)>>,
     probability |-> IF gt_half(p) THEN times100(p) ELSE hundred_minus(times100(p)),
     mel_spectrogram |-> mel]

NoSpectrogramKey(p, mel) ==
    [status |-> <<TRUE>>,
     deepfake |-> <<deepfake_of(p)>>,
     probability |-> probability_of(p)]

\* lines 133-138
success_result(p, mel) ==
    [status |-> <<TRUE>>,
     deepfake |-> <<deepfake_of(p)>>,
     probability |-> probability_of(p),
     mel_spectrogram |-> mel]

\* lines 106-110
silent_result == [status |-> <<FALSE>>, probability |-> None, deepfake |-> None]

(***************************************************************************)
(* The file system and the paths explain_prediction is called with.        *)
(***************************************************************************)
P_aac == <<"a", ".", "a", "a", "c">>
P_AaC == <<"a", ".", "A", "a", "C">>
P_wav == <<"a", ".", "w", "a", "v">>
P_nodot == <<"a", "a", "c">>
P_dotaac == <<".", "a", "a", "c">>

Paths == {P_aac, P_AaC, P_wav, P_nodot, P_dotaac}

\* the files on disk before the first call; P_nodot does not exist, and
\* P_dotaac is a file that no decoder reads
InitialFs ==
    [p \in {P_aac, P_AaC, P_wav, P_dotaac} |->
        CASE p = P_aac -> [codec |-> "aac", audio |-> "clip1"]
          [] p = P_AaC -> [codec |-> "aac", audio |-> "clip2"]
          [] p = P_wav -> [codec |-> "wav", audio |-> "clip3"]
          [] OTHER -> [codec |-> "corrupt", audio |-> "none"]]

Readable(files, path) == path \in DOMAIN files /\ files[path].codec # "corrupt"

\* line 20: AudioSegment.from_file(audio_path, format="aac")
DecodableAsAac(files, path) == path \in DOMAIN files /\ files[path].codec = "aac"

\* line 21: audio.export(new_path, format="wav") creates or overwrites new_path
export_wav(files, audio_path, new_path) ==
    [p \in DOMAIN files \cup {new_path} |->
        IF p = new_path
        THEN [codec |-> "wav", audio |-> files[audio_path].audio]
        ELSE files[p]]

\* lines 84, 92: librosa.load(audio_file, sr=16000); the encoders are
\* deterministic, so what they return is a function of the clip in the file
audio_input(files, path) ==
    CASE files[path].audio = "clip1" -> 0
      [] files[path].audio = "clip2" -> 1
      [] OTHER -> 2

\* lines 25-44: load_models(), run once when the module is imported
load_models ==
    [wave2vec_model |-> "facebook/wav2vec2-large-960h",
     processor |-> "facebook/wav2vec2-large-960h",
     wavlm_model |-> "microsoft/wavlm-large",
     feature_extractor |-> "microsoft/wavlm-large",
     siamese_model |-> "feature_extractor_model.h5",
     ensemble_classifier_model |-> "ensemble_classifier.keras",
     silero_vad_model |-> "snakers4/silero-vad",
     device |-> "cpu"]

\* line 64: len(speech_timestamps) > 0
NeverSilent(n_segments) == n_segments >= 0

is_speech_present(n_segments) == n_segments > 0

Unset == <<>>
NoResult == [unset |-> TRUE]

Called(fn, arg) == calls' = Append(calls, [fn |-> fn, arg |-> arg])

(***************************************************************************)
(* A collaborator raises: nothing in explain_prediction catches it, so the *)
(* exception leaves the call (there is no try/except in lines 102-138).    *)
(***************************************************************************)
SwallowAsSilence(fn) ==
    /\ pc' = "returned"
    /\ result' = silent_result
    /\ exception' = <<fn>>

Raise(fn) ==
    /\ pc' = "raised"
    /\ result' = NoResult
    /\ exception' = <<fn>>

Init ==
    /\ fs = InitialFs
    /\ models = load_models
    /\ pc = "idle"
    /\ audio_file = Unset
    /\ mel_spectrogram = Unset
    /\ mel_spectrogram_padded = Unset
    /\ wave2vec_features = Unset
    /\ xvector_features = Unset
    /\ siamese_features = Unset
    /\ combined_features = Unset
    /\ prediction = Unset
    /\ result = NoResult
    /\ exception = None
    /\ speech_timestamps = None
    /\ calls = <<>>

\* line 102: a caller invokes explain_prediction(path)
Call(path) ==
    /\ pc = "idle"
    /\ pc' = "L103"
    /\ audio_file' = path
    /\ calls' = <<[fn |-> "explain_prediction", arg |-> path]>>
    /\ UNCHANGED <<fs, models, locals, result, exception, speech_timestamps>>

\* lines 103-104 and 18-22: the file name ends in .aac, convert_to_wav
Transcode ==
    /\ pc = "L103"
    /\ IsAac(audio_file)
    /\ DecodableAsAac(fs, audio_file)
    /\ fs' = export_wav(fs, audio_file, new_path_of(audio_file))
    /\ audio_file' = new_path_of(audio_file)
    /\ Called("convert_to_wav", audio_file)
    /\ pc' = "L105"
    /\ UNCHANGED <<models, locals, result, exception, speech_timestamps>>

TranscodeRaises ==
    /\ pc = "L103"
    /\ IsAac(audio_file)
    /\ Called("convert_to_wav", audio_file)
    /\ Raise("convert_to_wav")
    /\ UNCHANGED <<fs, models, audio_file, locals, speech_timestamps>>

\* line 103, condition false
NoTranscode ==
    /\ pc = "L103"
    /\ ~IsAac(audio_file)
    /\ pc' = "L105"
    /\ UNCHANGED <<fs, models, audio_file, locals, result, exception,
                   speech_timestamps, calls>>

\* lines 105-110 and 47-64: the VAD finds no speech segment
GateSilent(n_segments) ==
    /\ pc = "L105"
    /\ Readable(fs, audio_file)
    /\ ~is_speech_present(n_segments)
    /\ speech_timestamps' = <<n_segments>>
    /\ Called("is_speech_present", audio_file)
    /\ result' = silent_result
    /\ pc' = "returned"
    /\ UNCHANGED <<fs, models, audio_file, locals, exception>>

\* line 105, speech present
GateSpeech(n_segments) ==
    /\ pc = "L105"
    /\ Readable(fs, audio_file)
    /\ is_speech_present(n_segments)
    /\ speech_timestamps' = <<n_segments>>
    /\ Called("is_speech_present", audio_file)
    /\ pc' = "L112"
    /\ UNCHANGED <<fs, models, audio_file, locals, result, exception>>

GateRaises ==
    /\ pc = "L105"
    /\ Called("is_speech_present", audio_file)
    /\ Raise("is_speech_present")
    /\ UNCHANGED <<fs, models, audio_file, locals, speech_timestamps>>

\* line 112
MelGen(samples, kind) ==
    /\ pc = "L112"
    /\ Readable(fs, audio_file)
    /\ mel_spectrogram' = mel_spectrogram_gen(samples, kind)
    /\ Called("mel_spectrogram_gen", audio_file)
    /\ pc' = "L113"
    /\ UNCHANGED <<fs, models, audio_file, mel_spectrogram_padded,
                   wave2vec_features, xvector_features, siamese_features,
                   combined_features, prediction, result, exception,
                   speech_timestamps>>

\* line 113
Pad ==
    /\ pc = "L113"
    /\ mel_spectrogram_padded' = pad_mel_spectrograms(mel_spectrogram)
    /\ pc' = "L114"
    /\ UNCHANGED <<fs, models, audio_file, mel_spectrogram,
                   wave2vec_features, xvector_features, siamese_features,
                   combined_features, prediction, result, exception,
                   speech_timestamps, calls>>

\* line 114
Normalize ==
    /\ pc = "L114"
    /\ mel_spectrogram_padded' = normalize_data(mel_spectrogram_padded)
    /\ pc' = "L116"
    /\ UNCHANGED <<fs, models, audio_file, mel_spectrogram,
                   wave2vec_features, xvector_features, siamese_features,
                   combined_features, prediction, result, exception,
                   speech_timestamps, calls>>

\* lines 116-117
ExpandDims ==
    /\ pc = "L116"
    /\ mel_spectrogram_padded' =
           expand_dims_first(expand_dims_last(mel_spectrogram_padded))
    /\ pc' = "L119"
    /\ UNCHANGED <<fs, models, audio_file, mel_spectrogram,
                   wave2vec_features, xvector_features, siamese_features,
                   combined_features, prediction, result, exception,
                   speech_timestamps, calls>>

\* line 119 and 83-89
Wave2Vec(T) ==
    /\ pc = "L119"
    /\ Readable(fs, audio_file)
    /\ wave2vec_features' =
           mean_time_squeeze(last_hidden_state(T, audio_input(fs, audio_file)))
    /\ Called("extract_wave2vec_features", audio_file)
    /\ pc' = "L120"
    /\ UNCHANGED <<fs, models, audio_file, mel_spectrogram,
                   mel_spectrogram_padded, xvector_features, siamese_features,
                   combined_features, prediction, result, exception,
                   speech_timestamps>>

\* line 120 and 91-97
XVector ==
    /\ pc = "L120"
    /\ Readable(fs, audio_file)
    /\ xvector_features' =
           mean_embed_squeeze(embeddings(audio_input(fs, audio_file)))
    /\ Called("extract_xvector_features", audio_file)
    /\ pc' = "L121"
    /\ UNCHANGED <<fs, models, audio_file, mel_spectrogram,
                   mel_spectrogram_padded, wave2vec_features, siamese_features,
                   combined_features, prediction, result, exception,
                   speech_timestamps>>

\* line 121
Siamese(seed, nan) ==
    /\ pc = "L121"
    /\ nan => IsNaN(mel_spectrogram_padded[1][1][1][1])
    /\ siamese_features' = siamese_output(seed, nan)
    /\ Called("siamese_model.predict", "mel_spectrogram_padded")
    /\ pc' = "L123"
    /\ UNCHANGED <<fs, models, audio_file, mel_spectrogram,
                   mel_spectrogram_padded, wave2vec_features, xvector_features,
                   combined_features, prediction, result, exception,
                   speech_timestamps>>

\* lines 123-127
Fuse ==
    /\ pc = "L123"
    /\ wave2vec_features' = reshape_vector(wave2vec_features)
    /\ siamese_features' = reshape_rows(siamese_features)
    /\ xvector_features' = reshape_scalar(xvector_features)
    /\ combined_features' =
           concatenate(wave2vec_features', siamese_features', xvector_features')
    /\ pc' = "L128"
    /\ UNCHANGED <<fs, models, audio_file, mel_spectrogram,
                   mel_spectrogram_padded, prediction, result, exception,
                   speech_timestamps, calls>>

\* lines 128-138: the classifier's score p, the decision, the return
Classify(p) ==
    /\ pc = "L128"
    /\ IsNaN(p) => HasNaN(combined_features[1])
    /\ prediction' = << <<p>> >>
    /\ Called("ensemble_classifier_model.predict", "combined_features")
    /\ result' = success_result(p, mel_spectrogram)
    /\ pc' = "returned"
    /\ UNCHANGED <<fs, models, audio_file, mel_spectrogram,
                   mel_spectrogram_padded, wave2vec_features, xvector_features,
                   siamese_features, combined_features, exception,
                   speech_timestamps>>

\* a decoder or a forward pass of lines 112-128 raises
StepRaises ==
    \E fn \in {"mel_spectrogram_gen", "extract_wave2vec_features",
               "extract_xvector_features", "siamese_model.predict",
               "ensemble_classifier_model.predict"} :
        /\ pc = CASE fn = "mel_spectrogram_gen" -> "L112"
                  [] fn = "extract_wave2vec_features" -> "L119"
                  [] fn = "extract_xvector_features" -> "L120"
                  [] fn = "siamese_model.predict" -> "L121"
                  [] OTHER -> "L128"
        /\ Called(fn, IF pc \in {"L121", "L128"} THEN "array" ELSE audio_file)
        /\ Raise(fn)
        /\ UNCHANGED <<fs, models, audio_file, locals, speech_timestamps>>

\* the call is over: its frame is gone and the caller has taken the outcome
Leave ==
    /\ pc \in {"returned", "raised"}
    /\ pc' = "idle"
    /\ audio_file' = Unset
    /\ mel_spectrogram' = Unset
    /\ mel_spectrogram_padded' = Unset
    /\ wave2vec_features' = Unset
    /\ xvector_features' = Unset
    /\ siamese_features' = Unset
    /\ combined_features' = Unset
    /\ prediction' = Unset
    /\ result' = NoResult
    /\ exception' = None
    /\ speech_timestamps' = None
    /\ calls' = <<>>
    /\ UNCHANGED <<fs, models>>

HalfSecond == sr \div 2
Scores == {<<k, PScale>> : k \in 0..PScale} \cup {NaN}

Next ==
    \/ \E path \in Paths : Call(path)
    \/ Transcode
    \/ TranscodeRaises
    \/ NoTranscode
    \/ \E n \in 0..MaxSegments : GateSilent(n)
    \/ \E n \in 0..MaxSegments : GateSpeech(n)
    \/ GateRaises
    \/ \E c \in 1..MaxHalfSeconds, kind \in 0..MaxKind : MelGen(c * HalfSecond, kind)
    \/ Pad
    \/ Normalize
    \/ ExpandDims
    \/ \E T \in 1..MaxT : Wave2Vec(T)
    \/ XVector
    \/ \E seed \in 0..MaxSeed, nan \in BOOLEAN : Siamese(seed, nan)
    \/ Fuse
    \/ \E p \in Scores : Classify(p)
    \/ StepRaises
    \/ Leave

Spec == Init /\ [][Next]_vars

(***************************************************************************)
(* pad_mel_spectrograms and normalize_data on their own: every array of    *)
(* 1..MaxRows rows and 0..MaxFramesIn frames, entered at line 113.         *)
(***************************************************************************)
InitPad ==
    /\ fs = InitialFs
    /\ models = load_models
    /\ pc = "L113"
    /\ audio_file = P_wav
    /\ \E rows \in 1..MaxRows, frames \in 0..MaxFramesIn, kind \in 0..MaxKind :
           mel_spectrogram = db_array(rows, frames, kind)
    /\ mel_spectrogram_padded = Unset
    /\ wave2vec_features = Unset
    /\ xvector_features = Unset
    /\ siamese_features = Unset
    /\ combined_features = Unset
    /\ prediction = Unset
    /\ result = NoResult
    /\ exception = None
    /\ speech_timestamps = None
    /\ calls = <<>>

NextPad == Pad \/ Normalize

SpecPad == InitPad /\ [][NextPad]_vars

(***************************************************************************)
(* Properties.                                                             *)
(***************************************************************************)
Extractors == {"mel_spectrogram_gen", "extract_wave2vec_features",
               "extract_xvector_features", "siamese_model.predict"}
Classifier == "ensemble_classifier_model.predict"
CalledFns == {calls[k].fn : k \in 1..Len(calls)}
PyBool == {<<TRUE>>, <<FALSE>>}
FracEq(a, b) == a[2] # 0 /\ b[2] # 0 /\ a[1] * b[2] = b[1] * a[2]

\* C1: when the voice-activity detector returns zero speech segments, the
\* call returns exactly {status: false, deepfake: null, probability: null}
\* and neither an extractor nor the ensemble classifier is invoked.
C1_SilentShortCircuit ==
    speech_timestamps = <<0>> =>
        /\ pc = "returned"
        /\ result = [status |-> <<FALSE>>, deepfake |-> None, probability |-> None]
        /\ DOMAIN result = {"status", "deepfake", "probability"}
        /\ CalledFns \cap (Extractors \cup {Classifier}) = {}
        /\ locals = <<Unset, Unset, Unset, Unset, Unset, Unset, Unset>>

C1_Witness ==
    /\ speech_timestamps = <<0>>
    /\ pc = "returned"
    /\ calls[Len(calls)].fn = "is_speech_present"

\* C2: on the success path, for a raw score p in [0,1], deepfake is true
\* iff p >= 0.5, the reported probability is 100*p when fake and 100*(1-p)
\* when real, and it lies in [0,100].
C2_DecisionRule ==
    (pc = "returned" /\ prediction # Unset /\ ~IsNaN(prediction[1][1])) =>
        LET p == prediction[1][1]
            fake == 2 * p[1] >= p[2]
        IN  /\ 0 <= p[1] /\ p[1] <= p[2]
            /\ result.deepfake = <<fake>>
            /\ fake => FracEq(result.probability, <<100 * p[1], p[2]>>)
            /\ ~fake => FracEq(result.probability, <<100 * (p[2] - p[1]), p[2]>>)
            /\ 0 <= result.probability[1]
            /\ result.probability[1] <= 100 * result.probability[2]

C2_Witness ==
    /\ pc = "returned"
    /\ prediction # Unset
    /\ ~IsNaN(prediction[1][1])
    /\ 2 * prediction[1][1][1] = prediction[1][1][2]
    /\ result.deepfake = <<TRUE>>
    /\ FracEq(result.probability, <<50, 1>>)

\* C3: for every input frame count n >= 0, pad_mel_spectrograms returns an
\* array with the same number of mel rows and exactly 87 time frames.
C3_AlwaysEightySevenFrames ==
    pc = "L114" =>
        /\ Len(mel_spectrogram_padded) = Len(mel_spectrogram)
        /\ \A i \in 1..Len(mel_spectrogram_padded) :
               Len(mel_spectrogram_padded[i]) = 87

C3_Witness ==
    /\ pc = "L114"
    /\ shape1(mel_spectrogram) > 87
    /\ Len(mel_spectrogram_padded[1]) = 87

\* C4: every returned result is well formed: status is a boolean; deepfake
\* and probability are both null when status is false and both non-null
\* when it is true; the mel_spectrogram key is present iff status is true.
C4_WellFormedResult ==
    /\ (pc = "returned") <=> (result # NoResult)
    /\ pc = "returned" =>
        /\ {"status", "deepfake", "probability"} \subseteq DOMAIN result
        /\ DOMAIN result \subseteq {"status", "deepfake", "probability", "mel_spectrogram"}
        /\ result.status \in PyBool
        /\ result.status = <<FALSE>> =>
               result.deepfake = None /\ result.probability = None
        /\ result.status = <<TRUE>> =>
               /\ result.deepfake \in PyBool
               /\ result.probability # None
               /\ Len(result.probability) = 2
        /\ ("mel_spectrogram" \in DOMAIN result) <=> (result.status = <<TRUE>>)

C4_Witness ==
    /\ pc = "returned"
    /\ result.status = <<TRUE>>
    /\ "mel_spectrogram" \in DOMAIN result
    /\ result.mel_spectrogram = mel_spectrogram

\* C5: when a decode or a forward pass fails, the call ends in an error
\* that is neither the silence record nor a success record, and the failed
\* step is not retried (no collaborator is called twice in one call).
C5_FailureIsExplicit ==
    /\ exception # None =>
           /\ pc = "raised"
           /\ result = NoResult
           /\ exception = <<calls[Len(calls)].fn>>
    /\ pc = "returned" => exception = None
    /\ \A j, k \in 1..Len(calls) : calls[j].fn = calls[k].fn => j = k

C5_Witness ==
    /\ pc = "raised"
    /\ exception = <<"siamese_model.predict">>
    /\ result = NoResult

\* C6: with distinct min and max every cell of normalize_data's output is
\* in [0,1], the minimum mapped to 0 and the maximum to 1; with min = max
\* every cell is 0/0 and that array reaches the spectral pattern encoder
\* unguarded.
C6_Normalization ==
    pc \in {"L116", "L123", "L128"} =>
        LET data == pad_mel_spectrograms(mel_spectrogram)
            lo == Min(Cells(data))
            hi == Max(Cells(data))
        IN  /\ (pc = "L116" /\ lo # hi) =>
                   \A i \in 1..Len(data) : \A j \in 1..Len(data[i]) :
                       LET c == mel_spectrogram_padded[i][j]
                       IN  /\ c[2] > 0
                           /\ 0 <= c[1] /\ c[1] <= c[2]
                           /\ data[i][j] = lo => c[1] = 0
                           /\ data[i][j] = hi => c[1] = c[2]
            /\ (pc = "L116" /\ lo = hi) =>
                   \A i \in 1..Len(data) : \A j \in 1..Len(data[i]) :
                       IsNaN(mel_spectrogram_padded[i][j])
            /\ (pc \in {"L123", "L128"} /\ lo = hi) =>
                   /\ "siamese_model.predict" \in CalledFns
                   /\ \A i \in 1..Len(data) : \A j \in 1..Len(data[i]) :
                          IsNaN(mel_spectrogram_padded[1][i][j][1])

C6_Witness ==
    /\ pc = "L123"
    /\ Cells(pad_mel_spectrograms(mel_spectrogram)) = {0}
    /\ IsNaN(mel_spectrogram_padded[1][1][1][1])
    /\ calls[Len(calls)].fn = "siamese_model.predict"

\* the order in which one call may invoke its collaborators
CallOrder == <<"explain_prediction", "is_speech_present", "mel_spectrogram_gen",
               "extract_wave2vec_features", "extract_xvector_features",
               "siamese_model.predict", "ensemble_classifier_model.predict">>

EndsInDotAacAnyCase(s) ==
    /\ Len(s) >= 4
    /\ s[Len(s) - 3] = "."
    /\ s[Len(s) - 2] \in {"a", "A"}
    /\ s[Len(s) - 1] \in {"a", "A"}
    /\ s[Len(s)] \in {"c", "C"}

IsStep(c) == c.fn # "convert_to_wav"
WithoutTranscode == SelectSeq(calls, IsStep)

\* C7: a call runs START, then TRANSCODE iff the name ends in .aac in any
\* letter case, then GATE, then either the silent exit or the extractors
\* and then the classifier; gate and extractors read the transcoded file.
C7_PipelineOrder ==
    calls # <<>> =>
        LET given == calls[1].arg
            transcoded == "convert_to_wav" \in CalledFns
            steps == WithoutTranscode
        IN  /\ calls[1].fn = "explain_prediction"
            /\ pc # "L103" => (transcoded <=> EndsInDotAacAnyCase(given))
            /\ transcoded => calls[2] = [fn |-> "convert_to_wav", arg |-> given]
            /\ \A k \in 1..Len(steps) : steps[k].fn = CallOrder[k]
            /\ \A k \in 2..Len(steps) :
                   steps[k].fn \in {"is_speech_present", "mel_spectrogram_gen",
                                    "extract_wave2vec_features",
                                    "extract_xvector_features"} =>
                       steps[k].arg =
                           IF transcoded
                           THEN SubSeq(given, 1, Len(given) - 4) \o DotWav
                           ELSE given
            /\ Classifier \in CalledFns =>
                   /\ Extractors \subseteq CalledFns
                   /\ wave2vec_features # Unset
                   /\ siamese_features # Unset
                   /\ xvector_features # Unset
            /\ (pc = "returned" /\ speech_timestamps # <<0>>) => Classifier \in CalledFns

C7_Witness ==
    /\ pc = "returned"
    /\ calls[1].arg = P_AaC
    /\ calls[2].fn = "convert_to_wav"
    /\ calls[3] = [fn |-> "is_speech_present", arg |-> P_wav]
    /\ calls[Len(calls)].fn = Classifier

\* C8: the fused vector is [acoustic, spectral-pattern, speaker] in that
\* order, of shape (1, D_acoustic + D_spectral + D_speaker), each element
\* of each source once, at the offset the order gives.
C8_FusionOrder ==
    combined_features # Unset =>
        LET w == wave2vec_features[1]
            s == siamese_features[1]
            x == xvector_features[1]
            f == combined_features[1]
        IN  /\ Len(combined_features) = 1
            /\ Len(f) = Len(w) + Len(s) + Len(x)
            /\ \A k \in 1..Len(w) : f[k] = w[k]
            /\ \A k \in 1..Len(s) : f[Len(w) + k] = s[k]
            /\ \A k \in 1..Len(x) : f[Len(w) + Len(s) + k] = x[k]

C8_Witness ==
    /\ pc = "returned"
    /\ combined_features # Unset
    /\ Len(combined_features[1]) = HiddenDim + SiameseDim + 1
    /\ calls[Len(calls)].fn = Classifier

\* C9: after any sequence of calls nothing a call created persists and
\* nothing shared across requests has changed (the model handles are only
\* read).
C9_NothingPersists ==
    pc = "idle" => (fs = InitialFs /\ models = load_models)

\* C10: pad_mel_spectrograms keeps the leading frames and pads on the
\* right: output column j is input column j for j < min(n, 87), columns
\* n <= j < 87 are zero, and for n = 87 the output is the input.
C10_LeadingFramesRightPad ==
    pc = "L114" =>
        LET n == shape1(mel_spectrogram)
            kept == IF n < 87 THEN n ELSE 87
        IN  \A i \in 1..Len(mel_spectrogram) :
                /\ \A j \in 1..kept :
                       mel_spectrogram_padded[i][j] = mel_spectrogram[i][j]
                /\ \A j \in (n + 1)..87 : mel_spectrogram_padded[i][j] = 0
                /\ n = 87 => mel_spectrogram_padded[i] = mel_spectrogram[i]

C10_Witness ==
    /\ pc = "L114"
    /\ shape1(mel_spectrogram) > 87
    /\ mel_spectrogram[1][88] # 0
    /\ mel_spectrogram_padded[1][87] = mel_spectrogram[1][87]
    /\ mel_spectrogram[1][87] # mel_spectrogram[1][shape1(mel_spectrogram)]

====
